---------------------------- MODULE Spec2Model ----------------------------
(***************************************************************************)
(* Model of src/main.cpp: the per-frame update of the capsule character    *)
(* (directional input, translation, jump/gravity, camera follow) and the   *)
(* helper updateRotation with normalizeAngle.                              *)
(*                                                                         *)
(* Number representation.  The program computes in IEEE single precision;  *)
(* the model computes the same expressions in exact fixed-point integers:  *)
(*   jump                 in 1/100        (3.f is 300)                     *)
(*   currentAddedHeight   in 1/10000      (0.01f * jump * ms is jump*ms)   *)
(*   positions            in 1/1000000    (0.01f * ms * cos, cos in 1/10000)*)
(*   rotation angles      in 1/400 degree (0.01 degree is 4)               *)
(*   deltaTime            in 1/200 ms     (0.5f * deltaTime is deltaTime)  *)
(* Rounding error of single precision is below the model's resolution.     *)
(* The steady clock is read at millisecond resolution.                     *)
(***************************************************************************)
EXTENDS Integers, FiniteSets, Sequences, TLC

VARIABLES
    pc,                     \* "loop" while the frame loop runs, "exited" after return 0
    then,                   \* time point of the previous iteration, in ms
    milliseconds,           \* elapsed ms measured by the current frame
    keys,                   \* directional keys held in the current frame (IsKeyDown)
    space,                  \* IsKeyPressed(KEY_SPACE) observed by the current frame
    playerDirection,        \* heading in degrees, -1 when no key is held
    lastPlayerDirection,    \* last non-sentinel heading, degrees
    playerRotationCurrent,  \* smoothed rotation, 1/400 degree
    deltaTime,              \* deltaTime argument of the last updateRotation call, 1/200 ms
    jump,                   \* jump velocity, 1/100
    currentAddedHeight,     \* jump height offset, 1/10000
    playerPosition,         \* [x, y, z], 1/1000000
    camera,                 \* [position, target], each [x, y, z], 1/1000000
    closeRequested,         \* the window's close-requested signal (WindowShouldClose)
    window,                 \* "open" from InitWindow until CloseWindow, then "closed"
    exitCode,               \* -1 while main runs, then the value main returns
    call                    \* the last call of normalizeAngle or turnToAngle with its result

vars == <<pc, then, milliseconds, keys, space, playerDirection, lastPlayerDirection,
          playerRotationCurrent, deltaTime, jump, currentAddedHeight,
          playerPosition, camera, closeRequested, window, exitCode, call>>

---------------------------------------------------------------------------
(* Units and program constants *)

\* units of jump per 1.0 (the 0.01f per-millisecond factor is one unit)
VelScale == 100
\* units of sin/cos per 1.0
TrigScale == 10000
\* units of position per 1.0: 0.01f * milliseconds * cos(radians)
PosScale == VelScale * TrigScale
\* units of rotation per degree
RotScale == 400

\* jump = 3.f
JumpLaunch == 3 * VelScale
\* gravity = 1.f
gravity == 1 * VelScale
\* fabs(diff) < 0.01f
SnapThreshold == RotScale \div 100
\* camera.position.z = playerPosition.z + 15.f
CameraBehind == 15 * PosScale

Keys == {"W", "A", "S", "D"}
Compass == {0, 45, 90, 135, 180, 225, 270, 315}

Vec(x, y, z) == [x |-> x, y |-> y, z |-> z]

---------------------------------------------------------------------------
(* Bounds of the model *)

\* the frame loop is explored while the clock is at most MaxClock ms
MaxClock == 34
\* elapsed times of a frame, ms
FrameDts == {0, 16, 17}

---------------------------------------------------------------------------
(* Directional input, main.cpp 121-130 *)

\* single keys tested before the diagonals
HeadingSinglesFirst(ks) ==
    IF "W" \in ks THEN 0
    ELSE IF "D" \in ks THEN 90
    ELSE IF "S" \in ks THEN 180
    ELSE IF "A" \in ks THEN 270
    ELSE -1

\* opposite keys cancelling each other
HeadingOppositeCancel(ks) ==
    LET eff == (ks \ (IF {"W", "S"} \subseteq ks THEN {"W", "S"} ELSE {}))
                   \ (IF {"A", "D"} \subseteq ks THEN {"A", "D"} ELSE {})
    IN  IF "W" \in eff /\ "D" \in eff THEN 45
        ELSE IF "D" \in eff /\ "S" \in eff THEN 135
        ELSE IF "S" \in eff /\ "A" \in eff THEN 225
        ELSE IF "A" \in eff /\ "W" \in eff THEN 315
        ELSE IF "W" \in eff THEN 0
        ELSE IF "D" \in eff THEN 90
        ELSE IF "S" \in eff THEN 180
        ELSE IF "A" \in eff THEN 270
        ELSE -1

Heading(ks) ==
    IF "W" \in ks /\ "D" \in ks THEN 45
    ELSE IF "D" \in ks /\ "S" \in ks THEN 135
    ELSE IF "S" \in ks /\ "A" \in ks THEN 225
    ELSE IF "A" \in ks /\ "W" \in ks THEN 315
    ELSE IF "W" \in ks THEN 0
    ELSE IF "D" \in ks THEN 90
    ELSE IF "S" \in ks THEN 180
    ELSE IF "A" \in ks THEN 270
    ELSE -1

---------------------------------------------------------------------------
(* Jump and gravity, main.cpp 132-141 *)

\* a trigger accepted in the air as well
JumpTriggerAnywhere(j, h, sp) == IF sp THEN JumpLaunch ELSE j

\* if (IsKeyPressed(KEY_SPACE) && currentAddedHeight == 0.f) jump = 3.f
JumpTrigger(j, h, sp) == IF sp /\ h = 0 THEN JumpLaunch ELSE j

\* float addHeight = 0.01f * jump * milliseconds
AddHeight(j, ms) == j * ms

\* the gravity term left out
ReduceHeightNone(ms) == 0

\* float reduceHeight = 0.01f * gravity * milliseconds
ReduceHeight(ms) == gravity * ms

\* a velocity that never decays
DecayNever(j, ms) == j

\* if (jump > 0) jump -= 0.01f * milliseconds
Decay(j, ms) == IF j > 0 THEN j - ms ELSE j

\* the clamp left out
ClampHeightNone(h) == h

\* if (currentAddedHeight < 0) currentAddedHeight = 0.f
ClampHeight(h) == IF h < 0 THEN 0 ELSE h

\* a landing that resets the velocity
JumpStepResetOnLanding(j, h, sp, ms) ==
    LET j1 == JumpTrigger(j, h, sp)
        h1 == h + AddHeight(j1, ms) - ReduceHeight(ms)
    IN  IF h1 < 0 THEN <<0, 0>> ELSE <<Decay(j1, ms), h1>>

\* the jump block of one frame: the new <<jump, currentAddedHeight>>
JumpStep(j, h, sp, ms) ==
    LET j1 == JumpTrigger(j, h, sp)
    IN  <<Decay(j1, ms), ClampHeight(h + AddHeight(j1, ms) - ReduceHeight(ms))>>

---------------------------------------------------------------------------
(* Translation, main.cpp 143-149 *)

\* cos of (playerDirection - 90) degrees, in 1/TrigScale
Cos(d) ==
    CASE d = -90 -> 0
      [] d = -45 -> 7071
      [] d = 0   -> 10000
      [] d = 45  -> 7071
      [] d = 90  -> 0
      [] d = 135 -> -7071
      [] d = 180 -> -10000
      [] d = 225 -> -7071

\* sin of (playerDirection - 90) degrees, in 1/TrigScale
Sin(d) ==
    CASE d = -90 -> -10000
      [] d = -45 -> -7071
      [] d = 0   -> 0
      [] d = 45  -> 7071
      [] d = 90  -> 10000
      [] d = 135 -> 7071
      [] d = 180 -> 0
      [] d = 225 -> -7071

\* a step that is not scaled by the elapsed time
TranslatePerFrame(p, dir, ms) ==
    IF dir >= 0
    THEN [x |-> p.x + Cos(dir - 90), y |-> p.y, z |-> p.z + Sin(dir - 90)]
    ELSE p

\* playerPosition.x += 0.01f * ms * cos(radians); playerPosition.z += 0.01f * ms * sin(radians)
Translate(p, dir, ms) ==
    IF dir >= 0
    THEN Vec(p.x + ms * Cos(dir - 90), p.y, p.z + ms * Sin(dir - 90))
    ELSE p

\* the heading stored whether or not a key is held
NewLastDirectionAlways(last, dir) == dir

\* if (playerDirection >= 0) lastPlayerDirection = playerDirection
NewLastDirection(last, dir) == IF dir >= 0 THEN dir ELSE last

---------------------------------------------------------------------------
(* Camera follow, main.cpp 151-153 *)

\* a camera target lifted by the jump height
FollowLifted(cam, p) ==
    [position |-> [x |-> p.x, y |-> cam.position.y, z |-> p.z + CameraBehind],
     target   |-> [x |-> p.x, y |-> p.y + currentAddedHeight, z |-> p.z]]

\* a camera kept at the character's height
FollowAtPlayerHeight(cam, p) ==
    [position |-> [x |-> p.x, y |-> p.y, z |-> p.z + CameraBehind],
     target   |-> p]

Follow(cam, p) ==
    [position |-> Vec(p.x, cam.position.y, p.z + CameraBehind),
     target   |-> p]

---------------------------------------------------------------------------
(* Angle helpers, main.cpp 40-68 *)

\* the first loop written with >=, which moves the endpoint 180 to -180
RECURSIVE normalizeAngleHalfOpen(_)
normalizeAngleHalfOpen(angle) ==
    IF angle >= 180 * RotScale THEN normalizeAngleHalfOpen(angle - 360 * RotScale)
    ELSE IF angle < -180 * RotScale THEN normalizeAngleHalfOpen(angle + 360 * RotScale)
    ELSE angle

RECURSIVE normalizeAngle(_)
normalizeAngle(angle) ==
    IF angle > 180 * RotScale THEN normalizeAngle(angle - 360 * RotScale)
    ELSE IF angle < -180 * RotScale THEN normalizeAngle(angle + 360 * RotScale)
    ELSE angle

Abs(n) == IF n < 0 THEN -n ELSE n

\* float turnStep = turnSpeed * deltaTime, turnSpeed = 0.5f
TurnStep(dt) == dt

\* a turn that always takes the full step
updateRotationFullStep(current, target, dt) ==
    LET diff == normalizeAngle(target * RotScale - current)
    IN  IF Abs(diff) < SnapThreshold
        THEN target * RotScale
        ELSE IF diff > 0
             THEN normalizeAngle(current + TurnStep(dt))
             ELSE normalizeAngle(current - TurnStep(dt))

\* the new playerRotationCurrent; target in degrees, dt in 1/200 ms
updateRotation(current, target, dt) ==
    LET diff     == normalizeAngle(target * RotScale - current)
        turnStep == TurnStep(dt)
    IN  IF Abs(diff) < SnapThreshold
        THEN target * RotScale
        ELSE IF diff > 0
             THEN normalizeAngle(current + (IF diff < turnStep THEN diff ELSE turnStep))
             ELSE normalizeAngle(current + (IF diff > -turnStep THEN diff ELSE -turnStep))

---------------------------------------------------------------------------
(* The program *)

\* main.cpp 83-97: the state before the first loop-condition check
Init ==
    /\ pc = "loop"
    /\ then = 0
    /\ milliseconds = 0
    /\ keys = {}
    /\ space = FALSE
    /\ playerDirection = -1
    /\ lastPlayerDirection = 180
    /\ playerRotationCurrent = 180 * RotScale
    /\ deltaTime = 0
    /\ jump = 0
    /\ currentAddedHeight = 0
    /\ playerPosition = Vec(0, 2 * PosScale, 0)
    /\ camera = [position |-> Vec(0, 25 * PosScale, 5 * PosScale),
                 target   |-> Vec(0, 0, 0)]
    /\ closeRequested = FALSE
    /\ window = "open"
    /\ exitCode = -1
    /\ call = [fn |-> "none"]

\* main.cpp 107-168: the body of the frame loop, except the clock;
\* ks are the held keys, sp the pressed edge of SPACE, dt the elapsed ms
FrameUpdate(ks, sp, dt) ==
    /\ milliseconds' = dt
    /\ keys' = ks
    /\ space' = sp
    /\ playerDirection' = Heading(ks)
    /\ jump' = JumpStep(jump, currentAddedHeight, sp, dt)[1]
    /\ currentAddedHeight' = JumpStep(jump, currentAddedHeight, sp, dt)[2]
    /\ lastPlayerDirection' = NewLastDirection(lastPlayerDirection, Heading(ks))
    /\ playerPosition' = Translate(playerPosition, Heading(ks), dt)
    /\ camera' = Follow(camera, Translate(playerPosition, Heading(ks), dt))
    /\ UNCHANGED <<playerRotationCurrent, deltaTime, closeRequested, window,
                   exitCode, call>>

\* main.cpp 105-170: one iteration of the frame loop, except the clock:
\* WindowShouldClose() is false and the body runs
FrameBody(ks, sp, dt) ==
    /\ pc = "loop"
    /\ ~closeRequested
    /\ UNCHANGED pc
    /\ FrameUpdate(ks, sp, dt)

\* main.cpp 107-109: now - then is dt, then = now
Frame(ks, sp, dt) ==
    /\ then + dt <= MaxClock
    /\ then' = then + dt
    /\ FrameBody(ks, sp, dt)

\* main.cpp 105, 174-177: WindowShouldClose() is true, CloseWindow(), return 0
Close ==
    /\ pc = "loop"
    /\ closeRequested' = TRUE
    /\ pc' = "exited"
    /\ window' = "closed"
    /\ exitCode' = 0
    /\ UNCHANGED <<then, milliseconds, keys, space, playerDirection, lastPlayerDirection,
                   playerRotationCurrent, deltaTime, jump, currentAddedHeight,
                   playerPosition, camera, call>>

Step == \E ks \in SUBSET Keys, sp \in BOOLEAN, dt \in FrameDts : Frame(ks, sp, dt)

Next == Step \/ Close

Spec == Init /\ [][Next]_vars

---------------------------------------------------------------------------
(* The frame loop with no directional key held: the jump alone *)

\* the jump is explored while the clock is at most MaxJumpClock ms
MaxJumpClock == 1500
\* elapsed times of a frame, ms
JumpDts == {0, 50, 100, 1000}

JumpFrame(sp, dt) ==
    /\ then + dt <= MaxJumpClock
    /\ then' = then + dt
    /\ FrameBody({}, sp, dt)

NextJump == \E sp \in BOOLEAN, dt \in JumpDts : JumpFrame(sp, dt)

SpecJump == Init /\ [][NextJump]_vars

---------------------------------------------------------------------------
(* The jump with every frame at least 1 ms long, running forever.  The     *)
(* program reads only now - then, so clock values beyond MaxJumpClock are  *)
(* identified.                                                             *)

ArcDts == JumpDts \ {0}

ArcClock(t) == IF t > MaxJumpClock THEN MaxJumpClock ELSE t

ArcFrame(sp, dt) ==
    /\ then' = ArcClock(then + dt)
    /\ FrameBody({}, sp, dt)

NextArc == \E sp \in BOOLEAN, dt \in ArcDts : ArcFrame(sp, dt)

\* the loop keeps iterating while the window is open
SpecArc == Init /\ [][NextArc]_vars /\ WF_vars(NextArc)

---------------------------------------------------------------------------
(* One jump: SPACE is pressed in the first frame and never after *)

\* camera.target is {0, 0, 0} until the first frame sets it to playerPosition
NoFrameYet == camera.target # playerPosition

OneJumpFrame(dt) ==
    /\ then + dt <= MaxJumpClock
    /\ then' = then + dt
    /\ FrameBody({}, NoFrameYet, dt)

NextOneJump == \E dt \in JumpDts : OneJumpFrame(dt)

SpecOneJump == Init /\ [][NextOneJump]_vars

---------------------------------------------------------------------------
(* The frame loop with the forward heading held in every frame *)

\* the walk is explored while the clock is at most MaxWalkClock ms
MaxWalkClock == 1000
\* elapsed times of a frame, ms
WalkDts == {0, 1, 16, 1000}

\* the key states that resolve to heading 0
ForwardKeys == {ks \in SUBSET Keys : Heading(ks) = 0}

WalkFrame(ks, dt) ==
    /\ then + dt <= MaxWalkClock
    /\ then' = then + dt
    /\ FrameBody(ks, FALSE, dt)

NextWalk == \E ks \in ForwardKeys, dt \in WalkDts : WalkFrame(ks, dt)

SpecWalk == Init /\ [][NextWalk]_vars

---------------------------------------------------------------------------
(* updateRotation called repeatedly, as a caller passing lastPlayerDirection *)
(* and an elapsed time would call it                                        *)

\* deltaTime arguments, 1/200 ms: 0, 45 ms, 180 ms, 360 ms
RotDts == {0, 9000, 36000, 72000}

\* updateRotation(playerRotationCurrent, target, dt)
RotCall(target, dt) ==
    /\ pc = "loop"
    /\ lastPlayerDirection' = target
    /\ deltaTime' = dt
    /\ playerRotationCurrent' = updateRotation(playerRotationCurrent, target, dt)
    /\ UNCHANGED <<pc, then, milliseconds, keys, space, playerDirection, jump,
                   currentAddedHeight, playerPosition, camera, closeRequested,
                   window, exitCode, call>>

NextRot == \E target \in Compass, dt \in RotDts : RotCall(target, dt)

SpecRot == Init /\ [][NextRot]_vars

\* a fixed target: deltaTime arguments with 0 < 0.5 * deltaTime < 180, 1/200 ms
TurnDts == {2, 9000}
\* rotations the turn starts from, 1/400 degree
TurnStarts == {180 * RotScale, 3}

InitTurn ==
    /\ pc = "loop"
    /\ then = 0
    /\ milliseconds = 0
    /\ keys = {}
    /\ space = FALSE
    /\ playerDirection = -1
    /\ lastPlayerDirection \in Compass
    /\ playerRotationCurrent \in TurnStarts
    /\ deltaTime = 0
    /\ jump = 0
    /\ currentAddedHeight = 0
    /\ playerPosition = Vec(0, 2 * PosScale, 0)
    /\ camera = [position |-> Vec(0, 25 * PosScale, 5 * PosScale),
                 target   |-> Vec(0, 0, 0)]
    /\ closeRequested = FALSE
    /\ window = "open"
    /\ exitCode = -1
    /\ call = [fn |-> "none"]

NextTurn == \E dt \in TurnDts : RotCall(lastPlayerDirection, dt)

\* the caller keeps calling
SpecTurn == InitTurn /\ [][NextTurn]_vars /\ WF_vars(NextTurn)

---------------------------------------------------------------------------
(* Claims on the jump *)

\* C1: currentAddedHeight is >= 0 at the end of every frame, for every
\* sequence of frames with any elapsed time and any SPACE input.
C1_HeightNeverNegative == currentAddedHeight >= 0

\* a 100 ms frame without a trigger that ends on the ground with the
\* velocity already run down: the clamp has acted
C1_ClampedLanding ==
    /\ currentAddedHeight = 0
    /\ milliseconds = 100
    /\ ~space
    /\ jump = JumpLaunch - 1000

\* C2: in a frame that begins with currentAddedHeight > 0 a pressed SPACE has
\* no effect (jump and currentAddedHeight end as in the same frame without
\* the press); in a frame that begins with currentAddedHeight = 0 a pressed
\* SPACE sets jump to 3 before the integration.
C2_TriggerOnlyGrounded ==
    [][ /\ currentAddedHeight > 0 =>
             <<jump', currentAddedHeight'>> =
                 JumpStep(jump, currentAddedHeight, FALSE, milliseconds')
        /\ (currentAddedHeight = 0 /\ space') =>
             /\ jump' = 3 * VelScale - milliseconds'
             /\ currentAddedHeight' = (3 * VelScale - gravity) * milliseconds'
      ]_vars

\* SPACE pressed in a frame that ends in the air with a velocity other than
\* that of a launch in this frame: the press was ignored
C2_IgnoredPress ==
    /\ space
    /\ currentAddedHeight > 0
    /\ jump # JumpLaunch - milliseconds

\* C3: with every frame at least 1 ms long, an accepted trigger on the ground
\* sets a positive jump velocity and currentAddedHeight becomes > 0; it later
\* returns to exactly 0, and on the ground it stays 0 in every frame without
\* an accepted trigger.
C3_JumpArc ==
    /\ [][ (currentAddedHeight = 0 /\ space') =>
              /\ JumpLaunch > 0
              /\ jump' = JumpLaunch - milliseconds'
              /\ currentAddedHeight' > 0 ]_vars
    /\ (currentAddedHeight > 0) ~> (currentAddedHeight = 0)
    /\ [][ (currentAddedHeight = 0 /\ ~space') => currentAddedHeight' = 0 ]_vars

\* back on the ground after an arc: the velocity has run below zero, which
\* only the decay after a launch produces
C3_Landed ==
    /\ currentAddedHeight = 0
    /\ jump < 0
    /\ ~space
    /\ milliseconds = 50

\* C9 as claimed: with SPACE pressed in the first frame only, jump and
\* currentAddedHeight after any frames whose elapsed times sum to T equal
\* those after a single frame of T ms, which are 3 - 0.01*T and 0.02*T.
C9_FrameRateIndependentJump ==
    ~NoFrameYet =>
        /\ jump = 3 * VelScale - then
        /\ currentAddedHeight = 2 * VelScale * then

\* C9 as amended: jump equals that of the single frame while T <= 300 ms, and
\* currentAddedHeight is at most that of the single frame.
C9_JumpBoundedBySingleFrame ==
    ~NoFrameYet =>
        /\ then <= 300 => jump = 3 * VelScale - then
        /\ currentAddedHeight <= 2 * VelScale * then

\* 100 ms split into two frames of 50 ms: lower than the single frame
C9_SplitLower ==
    /\ ~NoFrameYet
    /\ then = 100
    /\ milliseconds = 50
    /\ currentAddedHeight < 2 * VelScale * then
    /\ jump = 3 * VelScale - 100

---------------------------------------------------------------------------
(* Claims on the translation *)

---------------------------------------------------------------------------
(* Claims on the frame loop *)

\* C4: the heading is a total function of the four held keys that equals the
\* priority table W&D -> 45, D&S -> 135, S&A -> 225, A&W -> 315, W -> 0,
\* D -> 90, S -> 180, A -> 270, otherwise -1; it is one of the nine values,
\* with {W,D} -> 45, {W} -> 0, {} -> -1 and {W,S} -> 0.
C4_HeadingTable ==
    LET W == "W" \in keys
        A == "A" \in keys
        S == "S" \in keys
        D == "D" \in keys
        diagonal == (W /\ D) \/ (D /\ S) \/ (S /\ A) \/ (A /\ W)
    IN  /\ playerDirection \in {-1, 0, 45, 90, 135, 180, 225, 270, 315}
        /\ (W /\ D) => playerDirection = 45
        /\ (~(W /\ D) /\ D /\ S) => playerDirection = 135
        /\ (~(W /\ D) /\ ~(D /\ S) /\ S /\ A) => playerDirection = 225
        /\ (~(W /\ D) /\ ~(D /\ S) /\ ~(S /\ A) /\ A /\ W) => playerDirection = 315
        /\ (~diagonal /\ W) => playerDirection = 0
        /\ (~diagonal /\ ~W /\ D) => playerDirection = 90
        /\ (~diagonal /\ ~W /\ ~D /\ S) => playerDirection = 180
        /\ (~diagonal /\ ~W /\ ~D /\ ~S /\ A) => playerDirection = 270
        /\ keys = {} => playerDirection = -1
        /\ keys = {"W", "D"} => playerDirection = 45
        /\ keys = {"W"} => playerDirection = 0
        /\ keys = {"W", "S"} => playerDirection = 0

\* a frame with three keys held, resolved by the first diagonal of the table
C4_ThreeKeys ==
    /\ keys = {"W", "S", "D"}
    /\ playerDirection = 45
    /\ milliseconds = 16

\* C7 as claimed: every iteration of the frame loop advances
\* playerRotationCurrent by the rotation-smoothing step toward
\* lastPlayerDirection with that frame's elapsed time.
C7_FrameAdvancesRotation ==
    [][ pc' = "loop" =>
          playerRotationCurrent' =
              updateRotation(playerRotationCurrent, lastPlayerDirection',
                             milliseconds' * (RotScale \div 2)) ]_vars

\* C10: at the end of every frame camera.target is the character position
\* without the jump height, camera.position.x is the character's x and
\* camera.position.z is the character's z + 15.
C10_CameraFollows ==
    [][ pc' = "loop" =>
          /\ camera'.target = playerPosition'
          /\ camera'.position.x = playerPosition'.x
          /\ camera'.position.z = playerPosition'.z + 15 * PosScale ]_vars

\* the camera on a character that has moved diagonally and is in the air
C10_FollowedInTheAir ==
    /\ currentAddedHeight > 0
    /\ playerPosition.x > 0
    /\ playerPosition.z > 0
    /\ camera.target = playerPosition
    /\ camera.position.z = playerPosition.z + CameraBehind

---------------------------------------------------------------------------
(* Claims on the rotation smoothing *)

\* the shortest angular difference from the stored rotation to the target
DiffTo(current, target) == normalizeAngle(target * RotScale - current)

Min(a, b) == IF a < b THEN a ELSE b

\* C6 as claimed: after any sequence of updateRotation calls starting from
\* 180, with compass targets and any deltaTime >= 0, playerRotationCurrent
\* lies in [-180, 180].
C6_RotationNormalized ==
    /\ playerRotationCurrent >= -180 * RotScale
    /\ playerRotationCurrent <= 180 * RotScale

\* C5 as claimed: with a fixed target and 0 < 0.5*deltaTime < 180, each call
\* reduces |normalizeAngle(target - current)| by exactly
\* min(|diff|, 0.5*deltaTime) without the difference changing sign, and after
\* finitely many calls current equals the target and stays equal.
\* (0.5 * deltaTime degrees is deltaTime' in the units of the rotation.)
C5_TurnByExactStep ==
    /\ [][ LET d  == DiffTo(playerRotationCurrent, lastPlayerDirection)
               d2 == DiffTo(playerRotationCurrent', lastPlayerDirection')
           IN  /\ Abs(d2) = Abs(d) - Min(Abs(d), deltaTime')
               /\ d > 0 => d2 >= 0
               /\ d < 0 => d2 <= 0 ]_vars
    /\ <>[](playerRotationCurrent = lastPlayerDirection * RotScale)

\* C5 as amended: a call with |diff| < 0.01 reduces the difference to 0
\* whatever deltaTime is; any other call reduces |diff| by exactly
\* min(|diff|, 0.5*deltaTime); the difference never changes sign, and after
\* finitely many calls current equals the target and stays equal.
C5_TurnByStepOrSnap ==
    /\ [][ LET d  == DiffTo(playerRotationCurrent, lastPlayerDirection)
               d2 == DiffTo(playerRotationCurrent', lastPlayerDirection')
           IN  /\ Abs(d) < RotScale \div 100 => d2 = 0
               /\ Abs(d) >= RotScale \div 100 =>
                      Abs(d2) = Abs(d) - Min(Abs(d), deltaTime')
               /\ d > 0 => d2 >= 0
               /\ d < 0 => d2 <= 0 ]_vars
    /\ <>[](playerRotationCurrent = lastPlayerDirection * RotScale)

\* the target 0 reached by a call with the small deltaTime
C5_TargetReached ==
    /\ lastPlayerDirection = 0
    /\ playerRotationCurrent = 0
    /\ deltaTime = 2

---------------------------------------------------------------------------
(* Further claims on the frame loop *)

\* C11 as claimed: at the end of every frame camera.position.y equals
\* playerPosition.y.
C11_CameraAtPlayerHeight ==
    [][ pc' = "loop" => camera'.position.y = playerPosition'.y ]_vars

\* C11 as amended: camera.position.y keeps its initial value 25 in every
\* frame, while playerPosition.y stays 2.
C11_CameraHeightFixed ==
    /\ camera.position.y = 25 * PosScale
    /\ playerPosition.y = 2 * PosScale

\* the camera after a frame that moved the character to the left
C11_FollowedAtHeight25 ==
    /\ playerDirection = 270
    /\ milliseconds = 17
    /\ camera.position.x = playerPosition.x
    /\ playerPosition.x < 0
    /\ camera.position.y = 25 * PosScale

\* C13 as claimed: jump is >= 0 in every reachable state, after any sequence
\* of frames with any elapsed time.
C13_JumpNeverNegative == jump >= 0

\* C14: in a frame where no directional key is held playerPosition and
\* lastPlayerDirection are unchanged; in a frame with a heading
\* lastPlayerDirection is set to it; lastPlayerDirection is always one of
\* the 8 compass values (180 before any input).
C14_OnlyDirectionalInput ==
    /\ [][ pc' = "loop" =>
             /\ playerDirection' = -1 =>
                    /\ playerPosition' = playerPosition
                    /\ lastPlayerDirection' = lastPlayerDirection
             /\ playerDirection' # -1 => lastPlayerDirection' = playerDirection' ]_vars
    /\ [](lastPlayerDirection \in {0, 45, 90, 135, 180, 225, 270, 315})
    /\ [](NoFrameYet => lastPlayerDirection = 180)

\* a frame without directional input after a diagonal move: the heading 45
\* and the position persist
C14_HeadingPersists ==
    /\ keys = {}
    /\ playerDirection = -1
    /\ lastPlayerDirection = 45
    /\ playerPosition.x > 0
    /\ milliseconds = 16
    /\ then = 32

\* C19: the heading is -1 exactly when none of W, A, S, D is held; with any
\* key held (opposite pairs, three or four keys included) a frame with
\* elapsed time > 0 changes the position and sets lastPlayerDirection.
C19_SentinelOnlyWithoutKeys ==
    /\ [](playerDirection = -1 <=> keys = {})
    /\ [][ (pc' = "loop" /\ keys' # {} /\ milliseconds' > 0) =>
             /\ playerPosition' # playerPosition
             /\ lastPlayerDirection' = playerDirection'
             /\ lastPlayerDirection' \in Compass ]_vars

\* A and D held together: the character moves right
C19_OppositeKeysMove ==
    /\ keys = {"A", "D"}
    /\ playerDirection = 90
    /\ lastPlayerDirection = 90
    /\ playerPosition.x > 0
    /\ milliseconds = 16

---------------------------------------------------------------------------
(* Further claims on the jump *)

\* C17: the clamp of currentAddedHeight never modifies jump: jump is set to 3
\* by an accepted trigger and lowered by 0.01*ms per frame while positive,
\* and changes in no other way, so that states on the ground with jump # 0
\* are reached after a landing.
C17_LandingKeepsVelocity ==
    [][ LET accepted == space' /\ currentAddedHeight = 0
        IN  /\ accepted => jump' = 3 * VelScale - milliseconds'
            /\ (~accepted /\ jump > 0) => jump' = jump - milliseconds'
            /\ (~accepted /\ jump <= 0) => jump' = jump ]_vars

\* on the ground after a launch and a 1000 ms frame, the velocity at -7
C17_LandedWithVelocity ==
    /\ currentAddedHeight = 0
    /\ jump = -7 * VelScale
    /\ ~space
    /\ then = 1250

\* C18 as claimed: if a frame begins with currentAddedHeight = 0 and SPACE is
\* not pressed in it, currentAddedHeight = 0 at its end.
C18_LiftOffNeedsTrigger ==
    [][ (currentAddedHeight = 0 /\ ~space') => currentAddedHeight' = 0 ]_vars

\* C18 as amended: such a frame ends with currentAddedHeight = 0 unless it
\* begins with jump above gravity, which on the ground happens only right
\* after a trigger frame of 0 ms (jump still 3).
C18_LiftOffNeedsVelocity ==
    /\ [][ (currentAddedHeight = 0 /\ ~space' /\ jump <= 1 * VelScale)
               => currentAddedHeight' = 0 ]_vars
    /\ [](currentAddedHeight = 0 /\ jump > 1 * VelScale
               => jump = 3 * VelScale /\ milliseconds = 0)

\* in the air at the end of a frame without a press that began on the ground
\* with the velocity of a 0 ms trigger frame
C18_DelayedLiftOff ==
    /\ ~space
    /\ then = 50
    /\ milliseconds = 50
    /\ jump = 3 * VelScale - 50
    /\ currentAddedHeight = 2 * VelScale * 50

---------------------------------------------------------------------------
(* normalizeAngle called on whole degrees *)

\* the angles passed are the whole degrees from -MaxAngle to MaxAngle
MaxAngle == 720

NormalizeCall(a) ==
    /\ pc = "loop"
    /\ call' = [fn |-> "normalizeAngle", angle |-> a * RotScale,
                result |-> normalizeAngle(a * RotScale)]
    /\ UNCHANGED <<pc, then, milliseconds, keys, space, playerDirection,
                   lastPlayerDirection, playerRotationCurrent, deltaTime, jump,
                   currentAddedHeight, playerPosition, camera, closeRequested,
                   window, exitCode>>

NextNormalize == \E a \in -MaxAngle..MaxAngle : NormalizeCall(a)

SpecNormalize == Init /\ [][NextNormalize]_vars

\* C12: for every whole-degree input a, normalizeAngle returns r with
\* -180 <= r <= 180 and r congruent to a modulo 360; inputs in [-180, 180],
\* both endpoints included, are returned unchanged.
C12_NormalizedAndCongruent ==
    call.fn = "normalizeAngle" =>
        /\ call.result >= -180 * RotScale
        /\ call.result <= 180 * RotScale
        /\ (call.result - call.angle) % (360 * RotScale) = 0
        /\ (call.angle >= -180 * RotScale /\ call.angle <= 180 * RotScale)
               => call.result = call.angle

\* -540 degrees is brought to the endpoint -180 in one turn of the second loop
C12_EndpointReached ==
    /\ call.fn = "normalizeAngle"
    /\ call.angle = -540 * RotScale
    /\ call.result = -180 * RotScale

---------------------------------------------------------------------------
(* turnToAngle, main.cpp 21-38.  The point and the pivot are given in whole  *)
(* units; the result is in 1/TrigScale of that unit, so that the products   *)
(* with sin and cos are exact.                                              *)

\* sin of 0..90 degrees, in 1/TrigScale
SinTable ==
    << 0, 175, 349, 523, 698, 872, 1045, 1219, 1392, 1564,
       1736, 1908, 2079, 2250, 2419, 2588, 2756, 2924, 3090, 3256,
       3420, 3584, 3746, 3907, 4067, 4226, 4384, 4540, 4695, 4848,
       5000, 5150, 5299, 5446, 5592, 5736, 5878, 6018, 6157, 6293,
       6428, 6561, 6691, 6820, 6947, 7071, 7193, 7314, 7431, 7547,
       7660, 7771, 7880, 7986, 8090, 8192, 8290, 8387, 8480, 8572,
       8660, 8746, 8829, 8910, 8988, 9063, 9135, 9205, 9272, 9336,
       9397, 9455, 9511, 9563, 9613, 9659, 9703, 9744, 9781, 9816,
       9848, 9877, 9903, 9925, 9945, 9962, 9976, 9986, 9994, 9998,
       10000 >>

\* sin of d degrees for -360 < d < 360, in 1/TrigScale
SinDegrees(d) ==
    LET a == IF d < 0 THEN -d ELSE d
        v == IF a <= 90 THEN SinTable[a + 1]
             ELSE IF a <= 180 THEN SinTable[180 - a + 1]
             ELSE IF a <= 270 THEN -SinTable[a - 180 + 1]
             ELSE -SinTable[360 - a + 1]
    IN  IF d < 0 THEN -v ELSE v

\* cos of d degrees for -360 < d < 360, in 1/TrigScale
CosDegrees(d) ==
    LET a == IF d < 0 THEN -d ELSE d
    IN  IF a <= 90 THEN SinTable[90 - a + 1]
        ELSE IF a <= 180 THEN -SinTable[a - 90 + 1]
        ELSE IF a <= 270 THEN -SinTable[270 - a + 1]
        ELSE SinTable[a - 270 + 1]

\* degrees % 360 of C++: the remainder has the sign of degrees
Remainder360(degrees) ==
    IF degrees >= 0 THEN degrees % 360 ELSE -((-degrees) % 360)

\* a rotation about the origin: the translation back is left out
turnToAngleAboutOrigin(posToTurn, posCenter, degrees) ==
    LET r  == Remainder360(degrees)
        dx == posToTurn.x - posCenter.x
        dz == posToTurn.z - posCenter.z
    IN  [x |-> dx * CosDegrees(r) - dz * SinDegrees(r),
         y |-> posToTurn.y * TrigScale,
         z |-> dx * SinDegrees(r) + dz * CosDegrees(r)]

turnToAngle(posToTurn, posCenter, degrees) ==
    LET r        == Remainder360(degrees)
        dx       == posToTurn.x - posCenter.x
        dz       == posToTurn.z - posCenter.z
        rotatedX == dx * CosDegrees(r) - dz * SinDegrees(r)
        rotatedZ == dx * SinDegrees(r) + dz * CosDegrees(r)
    IN  Vec(rotatedX + posCenter.x * TrigScale,
            posToTurn.y * TrigScale,
            rotatedZ + posCenter.z * TrigScale)

\* the degrees passed are the integers from -MaxDegrees to MaxDegrees
MaxDegrees == 400
\* the points and pivots passed
TurnPoints == {Vec(x, y, z) : x \in {-1, 2}, y \in {0, 5}, z \in {-1, 2}}

\* the state before a call turnToAngle(p, c, d) returns
InitTurnToAngle ==
    /\ pc = "loop"
    /\ then = 0
    /\ milliseconds = 0
    /\ keys = {}
    /\ space = FALSE
    /\ playerDirection = -1
    /\ lastPlayerDirection = 180
    /\ playerRotationCurrent = 180 * RotScale
    /\ deltaTime = 0
    /\ jump = 0
    /\ currentAddedHeight = 0
    /\ playerPosition = Vec(0, 2 * PosScale, 0)
    /\ camera = [position |-> Vec(0, 25 * PosScale, 5 * PosScale),
                 target   |-> Vec(0, 0, 0)]
    /\ closeRequested = FALSE
    /\ window = "open"
    /\ exitCode = -1
    /\ \E p \in TurnPoints, c \in TurnPoints, d \in -MaxDegrees..MaxDegrees :
           call = [fn |-> "turnToAngle called", posToTurn |-> p, posCenter |-> c,
                   degrees |-> d, result |-> "pending"]

\* the call returns its result
TurnToAngleCall ==
    /\ call.fn = "turnToAngle called"
    /\ call' = [fn |-> "turnToAngle", posToTurn |-> call.posToTurn,
                posCenter |-> call.posCenter, degrees |-> call.degrees,
                result |-> turnToAngle(call.posToTurn, call.posCenter, call.degrees)]
    /\ UNCHANGED <<pc, then, milliseconds, keys, space, playerDirection,
                   lastPlayerDirection, playerRotationCurrent, deltaTime, jump,
                   currentAddedHeight, playerPosition, camera, closeRequested,
                   window, exitCode>>

NextTurnToAngle == TurnToAngleCall

SpecTurnToAngle == InitTurnToAngle /\ [][NextTurnToAngle]_vars

\* C16: for every integer degrees, positive, zero or negative, rotating a
\* point about itself returns the point, and for any point and pivot the y
\* of the result is the y of the point.
C16_SelfRotationIsIdentity ==
    call.fn = "turnToAngle" =>
        /\ call.result.y = call.posToTurn.y * TrigScale
        /\ call.posToTurn = call.posCenter =>
               /\ call.result.x = call.posToTurn.x * TrigScale
               /\ call.result.z = call.posToTurn.z * TrigScale

\* a point turned about itself by -395 degrees
C16_TurnedAboutItself ==
    /\ call.fn = "turnToAngle"
    /\ call.degrees = -395
    /\ call.posToTurn = Vec(2, 5, -1)
    /\ call.posCenter = Vec(2, 5, -1)
    /\ call.result = Vec(2 * TrigScale, 5 * TrigScale, -1 * TrigScale)

---------------------------------------------------------------------------
(* The frame loop with the close-requested signal raised at any moment,    *)
(* also while a frame is running: pc is "loop" at the loop condition and   *)
(* "frame" inside the body.                                                *)

\* key states of the frames
LoopKeys == {{}, {"W"}, {"D", "S"}}

\* the close button or ESC: the signal is raised and stays raised
RequestClose ==
    /\ pc # "exited"
    /\ ~closeRequested
    /\ closeRequested' = TRUE
    /\ UNCHANGED <<pc, then, milliseconds, keys, space, playerDirection,
                   lastPlayerDirection, playerRotationCurrent, deltaTime, jump,
                   currentAddedHeight, playerPosition, camera, window, exitCode, call>>

\* a frame that starts although the signal is raised
LoopEnterIgnoringClose ==
    /\ pc = "loop"
    /\ pc' = "frame"
    /\ UNCHANGED <<then, milliseconds, keys, space, playerDirection,
                   lastPlayerDirection, playerRotationCurrent, deltaTime, jump,
                   currentAddedHeight, playerPosition, camera, closeRequested,
                   window, exitCode, call>>

\* main.cpp 105: WindowShouldClose() is false, the body is entered
LoopEnter ==
    /\ pc = "loop"
    /\ ~closeRequested
    /\ pc' = "frame"
    /\ UNCHANGED <<then, milliseconds, keys, space, playerDirection,
                   lastPlayerDirection, playerRotationCurrent, deltaTime, jump,
                   currentAddedHeight, playerPosition, camera, closeRequested,
                   window, exitCode, call>>

\* main.cpp 107-170: the body runs to its end and returns to the condition
LoopFrame(ks, sp, dt) ==
    /\ pc = "frame"
    /\ then + dt <= MaxClock
    /\ then' = then + dt
    /\ pc' = "loop"
    /\ FrameUpdate(ks, sp, dt)

\* main.cpp 105, 174-177: WindowShouldClose() is true, CloseWindow(), return 0
LoopClose ==
    /\ pc = "loop"
    /\ closeRequested
    /\ pc' = "exited"
    /\ window' = "closed"
    /\ exitCode' = 0
    /\ UNCHANGED <<then, milliseconds, keys, space, playerDirection,
                   lastPlayerDirection, playerRotationCurrent, deltaTime, jump,
                   currentAddedHeight, playerPosition, camera, closeRequested, call>>

\* the steps of the program
LoopStep ==
    \/ LoopEnter
    \/ \E ks \in LoopKeys, sp \in BOOLEAN, dt \in FrameDts : LoopFrame(ks, sp, dt)
    \/ LoopClose

NextLoop == LoopStep \/ RequestClose

\* the program keeps running: a step it can take is taken
SpecLoop == Init /\ [][NextLoop]_vars /\ WF_vars(LoopStep)

\* C15: once the close-requested signal is true at a loop-condition check no
\* further frame starts and the program closes the window and exits with
\* code 0; a frame that has started runs to its end, with all its updates,
\* before the signal is examined; there is no other exit path.
C15_ExitOnlyAtLoopCondition ==
    /\ [][ (pc = "loop" /\ closeRequested) =>
              (pc' = "exited" /\ window' = "closed" /\ exitCode' = 0) ]_vars
    /\ [][ pc = "frame" =>
              \/ /\ pc' = "frame"
                 /\ closeRequested'
                 /\ UNCHANGED <<then, milliseconds, keys, playerPosition, camera,
                                jump, currentAddedHeight, lastPlayerDirection>>
              \/ /\ pc' = "loop"
                 /\ milliseconds' = then' - then
                 /\ camera'.target = playerPosition'
                 /\ camera'.position.z = playerPosition'.z + CameraBehind
                 /\ closeRequested' = closeRequested ]_vars
    /\ [][ pc' = "exited" => (pc = "loop" /\ closeRequested) ]_vars
    /\ [](pc = "exited" <=> exitCode = 0)
    /\ [](pc = "exited" <=> window = "closed")
    /\ closeRequested ~> (pc = "exited")

\* exited after a frame of 16 ms during which the signal could only wait
C15_ExitedAfterFrame ==
    /\ pc = "exited"
    /\ exitCode = 0
    /\ window = "closed"
    /\ closeRequested
    /\ then = 16
    /\ keys = {"W"}
    /\ camera.target = playerPosition

=============================================================================
